---- MODULE Spec2Model ----
(***************************************************************************)
(* A model of the SSM session data channel of ssm-session-client:          *)
(* datachannel/message_buffer.go (the bounded message buffer) and          *)
(* datachannel/data_channel.go (SsmDataChannel: sequencing, ACKs,          *)
(* handshake, pause/resume, the retransmit sweeper).                       *)
(***************************************************************************)
EXTENDS Integers, Sequences, FiniteSets, TLC

(* ------------------------------ bounds --------------------------------- *)

\* Sends that draw a number from the outbound counter stop once it reaches MaxSeq.
MaxSeq == 3
\* Inbound messages carry sequence numbers 0..MaxInSeq.
MaxInSeq == 2
\* The capacity handed to NewMessageBuffer (Open uses 50; scaled down here).
BufSize == 3
\* Local connections a port forwarding session accepts.
MaxConn == 3
\* The longest list of requested client actions tried.
MaxActions == 2

(* ---------------------- types.go: enumerated labels -------------------- *)

Acknowledge == "acknowledge"
ChannelClosed == "channel_closed"
OutputStreamData == "output_stream_data"
InputStreamData == "input_stream_data"
PausePublication == "pause_publication"
StartPublication == "start_publication"
TaskReply == "agent_task_reply"

\* AgentMessageFlag
Data == 0
Syn == 1
Fin == 2
Ack == 3

\* PayloadType
Undefined == 0
Output == 1
Error == 2
Size == 3
HandshakeRequest == 5
HandshakeResponse == 6
HandshakeComplete == 7
Flag == 10

\* PayloadTypeFlag
DisconnectToPort == 1
TerminateSessionFlag == 2

\* ActionType, ActionStatus
KMSEncryption == "KMSEncryption"
SessionType == "SessionType"
Success == 1

(* ------------------------ message_buffer.go ---------------------------- *)

\* A nil MessageBuffer interface value, and a nil *AgentMessage.
NilBuf == [nil |-> TRUE]
NilMsg == [nil |-> TRUE]

\* The list is a sequence; seqMap maps a sequence number to the position of the
\* list element it indexes; cursor is a position, 0 for nil, or -1 for an element
\* that has been unlinked from the list (its Next() is nil).
NewMessageBuffer(size) ==
  [size |-> size, buf |-> << >>, seqMap |-> << >>, cursor |-> 0]

BufLen(m) == Len(m.buf)

\* The sequence numbers of the messages held in the list.
BufSeqs(m) == {m.buf[i].SequenceNumber : i \in 1..BufLen(m)}

\* Mutant of Add: the capacity test is off by one.
AddOverCapacity(m, msg) ==
  IF BufLen(m) > m.size
    THEN [b |-> m, err |-> "buffer full"]
    ELSE [b |-> [m EXCEPT !.buf = Append(@, msg),
                          !.seqMap = (msg.SequenceNumber :> (BufLen(m) + 1)) @@ @],
          err |-> "nil"]

\* Add: ErrBufferFull at capacity, else PushBack and index the new element.
Add(m, msg) ==
  IF BufLen(m) = m.size
    THEN [b |-> m, err |-> "buffer full"]
    ELSE [b |-> [m EXCEPT !.buf = Append(@, msg),
                          !.seqMap = (msg.SequenceNumber :> (BufLen(m) + 1)) @@ @],
          err |-> "nil"]

RemoveAt(s, i) == [j \in 1..(Len(s) - 1) |-> IF j < i THEN s[j] ELSE s[j + 1]]

\* Remove: unlink the indexed element (if any) and delete the index entry.
Remove(m, seqNum) ==
  IF seqNum \in DOMAIN m.seqMap
    THEN LET i == m.seqMap[seqNum]
         IN [m EXCEPT
               !.buf = RemoveAt(@, i),
               !.seqMap = [s \in (DOMAIN @) \ {seqNum} |->
                             IF @[s] > i THEN @[s] - 1 ELSE @[s]],
               !.cursor = IF @ = i THEN -1 ELSE IF @ > i THEN @ - 1 ELSE @]
    ELSE m

\* Mutant of Get: the front of the list, whatever its sequence number.
GetFront(m, seqNum) ==
  IF BufLen(m) > 0 THEN m.buf[1] ELSE NilMsg

Get(m, seqNum) ==
  IF seqNum \in DOMAIN m.seqMap THEN m.buf[m.seqMap[seqNum]] ELSE NilMsg

\* Mutant of NextEl: a nil cursor starts at the back of the list.
NextElFromBack(m) ==
  IF m.cursor = 0 THEN BufLen(m)
  ELSE IF m.cursor = -1 THEN 0
  ELSE IF m.cursor < BufLen(m) THEN m.cursor + 1 ELSE 0

\* Next: from a nil cursor the front, else the cursor's successor; an unlinked
\* element and the tail have no successor.  The cursor moves to the result.
NextEl(m) ==
  IF m.cursor = 0 THEN (IF BufLen(m) > 0 THEN 1 ELSE 0)
  ELSE IF m.cursor = -1 THEN 0
  ELSE IF m.cursor < BufLen(m) THEN m.cursor + 1 ELSE 0

Next(m) ==
  LET el == NextEl(m)
  IN [b |-> [m EXCEPT !.cursor = el],
      msg |-> IF el # 0 THEN m.buf[el] ELSE NilMsg]

(* --------------------------- messages ---------------------------------- *)

AgentMessage(type, flags, seq, ptype, payload) ==
  [MessageType |-> type, Flags |-> flags, SequenceNumber |-> seq,
   PayloadType |-> ptype, Payload |-> payload]

\* binary.BigEndian.PutUint32 of a small value.
PutUint32(v) == <<0, 0, 0, v>>

\* len(m.MessageType) for the labels that occur.
MsgTypeLen(t) ==
  CASE t = Acknowledge -> 11
    [] t = ChannelClosed -> 14
    [] t = OutputStreamData -> 18
    [] t = InputStreamData -> 17
    [] t = PausePublication -> 17
    [] t = StartPublication -> 17
    [] t = TaskReply -> 16
    [] OTHER -> 3

\* ValidateMessage, as far as the fields kept here go: the label's minimum length.
ValidateMessage(m) ==
  IF MsgTypeLen(m.MessageType) < 10 THEN "invalid message type" ELSE "nil"

IsOutput(m) == m.MessageType = OutputStreamData /\ m.PayloadType = Output

\* json.Marshal of the acknowledge map: the members AcknowledgedMessageType,
\* AcknowledgedMessageSequenceNumber and IsSequentialMessage, in that order
\* (AcknowledgedMessageId is a random UUID and is not kept).
AckPayload(msg) == <<msg.MessageType, msg.SequenceNumber, TRUE>>

\* json.Unmarshal of a payload: a JSON document is a one-element payload holding
\* the decoded object; anything else does not parse.
JsonOk(payload) == Len(payload) = 1

(* --------------------------- data_channel.go --------------------------- *)

\* Mutant of WriteMsgLocked: every message is kept for retransmission.
WriteMsgLockedBufferAll(c, m1) ==
  LET added == IF c.outMsgBuf # NilBuf THEN Add(c.outMsgBuf, m1)
                                       ELSE [b |-> c.outMsgBuf, err |-> "nil"]
      c1 == [c EXCEPT !.synSent = TRUE, !.outMsgBuf = added.b]
  IN IF ~c.pausePub
       THEN [c |-> c1, msg |-> m1,
             frames |-> IF c.wsOpen THEN <<m1>> ELSE << >>,
             n |-> Len(m1.Payload),
             err |-> IF c.wsOpen THEN "nil" ELSE "closed"]
       ELSE [c |-> c1, msg |-> m1, frames |-> << >>, n |-> Len(m1.Payload),
             err |-> added.err]

\* WriteMsg from c.mu.Lock() on, for the message m1 as marshalled: returns the
\* fields after the call, the frames written to the WebSocket, the count and the
\* error returned.
WriteMsgLocked(c, m1) ==
  LET buffered == /\ c.outMsgBuf # NilBuf
                  /\ m1.MessageType # Acknowledge
                  /\ m1.PayloadType # HandshakeResponse
      added == IF buffered THEN Add(c.outMsgBuf, m1)
                           ELSE [b |-> c.outMsgBuf, err |-> "nil"]
      c1 == [c EXCEPT !.synSent = TRUE, !.outMsgBuf = added.b]
  IN IF ~c.pausePub
       THEN [c |-> c1, msg |-> m1,
             frames |-> IF c.wsOpen THEN <<m1>> ELSE << >>,
             n |-> Len(m1.Payload),
             err |-> IF c.wsOpen THEN "nil" ELSE "closed"]
       ELSE [c |-> c1, msg |-> m1, frames |-> << >>, n |-> Len(m1.Payload),
             err |-> added.err]

\* WriteMsg run by one goroutine alone: the unlocked prologue (the Syn of the first
\* message, the counter store for a negative sequence number), then the locked part.
WriteMsg(c, msg) ==
  LET first == ~c.synSent
      m1 == IF first THEN [msg EXCEPT !.Flags = Syn, !.SequenceNumber = 0] ELSE msg
      s1 == IF first THEN 0 ELSE c.seqNum
      s2 == IF m1.SequenceNumber < 0 THEN 1 ELSE s1
  IN WriteMsgLocked([c EXCEPT !.seqNum = s2], m1)

sendAcknowledgeMessage(c, msg) ==
  WriteMsg(c, AgentMessage(Acknowledge, Ack, msg.SequenceNumber, Undefined,
                           AckPayload(msg)))

\* Mutant of buildHandshakeResponse: every action is answered with Success.
buildHandshakeResponseAllSuccess(actions) ==
  [ClientVersion |-> "0.0.1",
   ProcessedClientActions |->
     [i \in 1..Len(actions) |-> [ActionType |-> actions[i], ActionStatus |-> Success]]]

buildHandshakeResponse(actions) ==
  [ClientVersion |-> "0.0.1",
   ProcessedClientActions |->
     [i \in 1..Len(actions) |->
        IF actions[i] = SessionType
          THEN [ActionType |-> SessionType, ActionStatus |-> Success]
          ELSE [ActionType |-> "", ActionStatus |-> 0]]]

\* processHandshakeRequest: [c, frames, err]; a payload that does not parse fails
\* before anything is sent.
processHandshakeRequest(c, msg) ==
  IF ~JsonOk(msg.Payload)
    THEN [c |-> c, msg |-> NilMsg, frames |-> << >>, n |-> 0, err |-> "json"]
    ELSE WriteMsg(c, AgentMessage(InputStreamData, Data, msg.SequenceNumber,
                    HandshakeResponse,
                    <<buildHandshakeResponse(msg.Payload[1].RequestedClientActions)>>))

\* The loop of processInboundQueue: while the expected sequence is buffered, take
\* it, advance the counter, append its payload and remove it.
RECURSIVE DrainInbound(_, _, _)
DrainInbound(b, seq, data) ==
  LET msg == Get(b, seq)
  IN IF msg # NilMsg
       THEN DrainInbound(Remove(b, msg.SequenceNumber), seq + 1, data \o msg.Payload)
       ELSE [b |-> b, seq |-> seq, data |-> data]

\* Mutant of processInboundQueue: one message at most is taken per call.
processInboundQueueOnce(c) ==
  IF c.inMsgBuf = NilBuf \/ Get(c.inMsgBuf, c.inSeqNum) = NilMsg
    THEN [c |-> c, payload |-> << >>, err |-> "nil"]
    ELSE LET msg == Get(c.inMsgBuf, c.inSeqNum)
         IN [c |-> [c EXCEPT !.inMsgBuf = Remove(@, msg.SequenceNumber),
                             !.inSeqNum = @ + 1],
             payload |-> msg.Payload, err |-> "nil"]

processInboundQueue(c) ==
  IF c.inMsgBuf = NilBuf
    THEN [c |-> c, payload |-> << >>, err |-> "nil"]
    ELSE LET d == DrainInbound(c.inMsgBuf, c.inSeqNum, << >>)
         IN [c |-> [c EXCEPT !.inMsgBuf = d.b, !.inSeqNum = d.seq],
             payload |-> d.data, err |-> "nil"]

\* The tail of HandleMsg: acknowledge, then drain the reorder buffer.  c is the
\* channel after the switch, pre the frames written by it.
AckAndDrain(c, m, pre) ==
  LET a == sendAcknowledgeMessage(c, m)
      q == processInboundQueue(a.c)
  IN IF a.err # "nil"
       THEN [c |-> a.c, payload |-> << >>, err |-> a.err, frames |-> pre \o a.frames,
             drained |-> << >>]
       ELSE [c |-> q.c, payload |-> q.payload, err |-> q.err,
             frames |-> pre \o a.frames, drained |-> q.payload]

Return(c, payload, err, frames) ==
  [c |-> c, payload |-> payload, err |-> err, frames |-> frames, drained |-> << >>]

\* Mutant of HandleMsgOutput: the duplicate test comes before the unbuffered path.
HandleMsgOutputDupFirst(c, m) ==
  IF m.SequenceNumber < c.inSeqNum
    THEN Return(c, << >>, "nil", << >>)
  ELSE IF c.inMsgBuf = NilBuf
    THEN LET a == sendAcknowledgeMessage(c, m)
         IN Return(a.c, m.Payload, "nil", a.frames)
  ELSE LET r == Add(c.inMsgBuf, m)
       IN IF r.err # "nil"
            THEN Return(c, << >>, r.err, << >>)
            ELSE AckAndDrain([c EXCEPT !.inMsgBuf = r.b], m, << >>)

\* HandleMsg on the channel fields c and the frame m (its decoded fields).
HandleMsgOutput(c, m) ==
  IF c.inMsgBuf = NilBuf
    THEN LET a == sendAcknowledgeMessage(c, m)
         IN Return(a.c, m.Payload, "nil", a.frames)
  ELSE IF m.SequenceNumber < c.inSeqNum
    THEN Return(c, << >>, "nil", << >>)
  ELSE LET r == Add(c.inMsgBuf, m)
       IN IF r.err # "nil"
            THEN Return(c, << >>, r.err, << >>)
            ELSE AckAndDrain([c EXCEPT !.inMsgBuf = r.b], m, << >>)

\* Mutant of HandleMsgChannelClosed: the Output bytes are left out.
HandleMsgChannelClosedNoOutput(c, m) ==
  IF ~JsonOk(m.Payload)
    THEN Return(c, << >>, "json", << >>)
    ELSE Return(c, << >>, "EOF", << >>)

HandleMsgChannelClosed(c, m) ==
  IF ~JsonOk(m.Payload)
    THEN Return(c, << >>, "json", << >>)
    ELSE Return(c, m.Payload[1].Output, "EOF", << >>)

HandleMsg(c, m) ==
  IF ValidateMessage(m) # "nil" THEN Return(c, << >>, ValidateMessage(m), << >>)
  ELSE IF m.MessageType = Acknowledge
    THEN AckAndDrain(IF c.outMsgBuf # NilBuf
                       THEN [c EXCEPT !.outMsgBuf = Remove(@, m.SequenceNumber)]
                       ELSE c, m, << >>)
  ELSE IF m.MessageType = PausePublication
    THEN AckAndDrain([c EXCEPT !.pausePub = TRUE], m, << >>)
  ELSE IF m.MessageType = StartPublication
    THEN AckAndDrain([c EXCEPT !.pausePub = FALSE], m, << >>)
  ELSE IF m.MessageType = OutputStreamData
    THEN IF m.PayloadType = Output THEN HandleMsgOutput(c, m)
         ELSE IF m.PayloadType = HandshakeRequest
           THEN LET h == processHandshakeRequest(c, m)
                IN IF h.err # "nil" THEN Return(h.c, << >>, h.err, h.frames)
                                    ELSE AckAndDrain(h.c, m, h.frames)
         ELSE IF m.PayloadType = HandshakeComplete
           THEN IF c.handshakeCh = "closed"
                  THEN Return(c, << >>, "panic", << >>)
                  ELSE AckAndDrain([c EXCEPT !.handshakeCh =
                                      IF @ = "nil" THEN "nil" ELSE "closed"], m, << >>)
         ELSE Return(c, << >>, "unknown payload", << >>)
  ELSE IF m.MessageType = ChannelClosed THEN HandleMsgChannelClosed(c, m)
  ELSE Return(c, << >>, "unknown type", << >>)

(* ------------------------------ state ---------------------------------- *)

VARIABLES
  seqNum,       \* outbound sequence counter
  inSeqNum,     \* expected inbound sequence
  synSent,
  pausePub,
  handshakeCh,  \* "open", "closed" or "nil"
  outMsgBuf,    \* retransmit buffer, or NilBuf
  inMsgBuf,     \* reorder buffer, or NilBuf
  wsOpen,       \* the WebSocket accepts writes
  waiting,      \* the reader is inside WaitForHandshakeComplete (port and ssh
                \* sessions call it right after Open, shell sessions never)
  panicked,     \* the process died of a run-time panic
  swPc,         \* processOutboundQueue: "sleep", "next", "write" or "done"
  swMsg,        \* the message the sweeper got from Next()
  op,           \* the last operation, with its argument
  ret,          \* what it returned: [payload, n, err]
  wsOut,        \* the binary frames it wrote to the WebSocket, in order
  delivered,    \* payload bytes returned so far by buffered-mode drains
  sentAny,      \* a frame has been written to the WebSocket
  maxCtr,       \* highest sequence number written by a counter-numbered send
  acked,        \* sequence numbers of buffered messages acknowledged by the peer
  sPc,          \* concurrent senders: "idle", "check", "store", "flag" or "lock"
  sOp,          \* concurrent senders: the call in progress and its message
  kind,         \* the session function running: "none", "port", "ssh" or "shell"
  mainPc,       \* where the session function is
  retErr,       \* the error it is about to return
  result,       \* "running", "returned" or "exit0"
  rdPc,         \* messageChannel's goroutine: "off", "read", "sendData", "sendErr", "closed"
  rdVal,        \* the payload it is sending on inCh
  nConn,        \* local connections accepted so far (the last one is the current)
  conn,         \* per connection (or stdin): "none", "open", "eof", "reset", "closed"
  cpPc,         \* per connection, its copy goroutine: "none", "copy", "sendErr", "sendDone", "end"
  how,          \* per connection, what its io.Copy returned: "", "eof" or "err"
  errCh,        \* ssh and shell: the buffered error channel, [buf, closed]
  sigI,         \* the signal handler: 0 before the signal, then the statement it is at
  sink,         \* the last payload written to the local sink (connection or stdout)
  closedOutput, \* the Output bytes HandleMsg returned for channel_closed
  discs,        \* DisconnectPort calls made for the current connection
  sigSent,      \* the handler's TerminateSession: "none", "written" or "unwritten"
  mb,           \* a messageBuffer used on its own
  trav,         \* what Next has returned from mb since it last returned nil
  place         \* how many elements of mb's list lie at or before the cursor's place

chanVars == <<seqNum, inSeqNum, synSent, pausePub, handshakeCh, outMsgBuf, inMsgBuf,
              wsOpen, waiting, panicked>>
swVars == <<swPc, swMsg>>
obsVars == <<op, ret, wsOut, delivered>>
histVars == <<sentAny, maxCtr, acked>>
sndVars == <<sPc, sOp>>
orchVars == <<kind, mainPc, retErr, result, rdPc, rdVal, nConn, conn, cpPc, how, errCh,
              sigI, sink, closedOutput, discs, sigSent>>
bufVars == <<mb, trav, place>>
vars == <<chanVars, swVars, obsVars, histVars, sndVars, orchVars, bufVars>>

\* The channel's fields as one value, and their update from one.
Chan ==
  [seqNum |-> seqNum, inSeqNum |-> inSeqNum, synSent |-> synSent,
   pausePub |-> pausePub, handshakeCh |-> handshakeCh, outMsgBuf |-> outMsgBuf,
   inMsgBuf |-> inMsgBuf, wsOpen |-> wsOpen]

SetChan(c) ==
  /\ seqNum' = c.seqNum
  /\ inSeqNum' = c.inSeqNum
  /\ synSent' = c.synSent
  /\ pausePub' = c.pausePub
  /\ handshakeCh' = c.handshakeCh
  /\ outMsgBuf' = c.outMsgBuf
  /\ inMsgBuf' = c.inMsgBuf
  /\ wsOpen' = c.wsOpen

NoRet == [payload |-> << >>, n |-> 0, err |-> "nil"]

\* The goroutines that send concurrently: the input copier and a signal handler.
Senders == {1, 2}

\* The history of the WebSocket after a call wrote frames.
Wrote(frames) == sentAny' = (sentAny \/ frames # << >>)

\* ... and after a counter-numbered message msg was handed to WriteMsg.
WroteNumbered(frames, msg) ==
  maxCtr' = IF frames # << >> /\ msg.SequenceNumber > maxCtr
              THEN msg.SequenceNumber ELSE maxCtr

(* ------------------------------ inputs --------------------------------- *)

InSeqs == 0..MaxInSeq
AckSeqs == (-1)..MaxSeq
\* The sequence numbers a caller of WriteMsg puts in its own messages.
UserSeqs == {-1, 1}

\* The payload the agent sends with sequence number s.
PayloadOf(s) == <<10 + s>>
OutPayload == <<7>>

HandshakeRequestPayloads ==
  { << >>, <<[RequestedClientActions |-> <<SessionType>>]>> }
ChannelClosedPayloads ==
  { << >>, <<[Output |-> << >>]>>, <<[Output |-> <<98, 121, 101>>]>> }

InMsgs ==
  {AgentMessage(Acknowledge, Ack, s, Undefined, << >>) : s \in AckSeqs}
  \cup {AgentMessage(t, Data, s, Undefined, << >>) :
          t \in {PausePublication, StartPublication}, s \in InSeqs}
  \cup {AgentMessage(OutputStreamData, Data, s, Output, PayloadOf(s)) : s \in InSeqs}
  \cup {AgentMessage(OutputStreamData, Data, s, HandshakeRequest, p) :
          s \in InSeqs, p \in HandshakeRequestPayloads}
  \cup {AgentMessage(OutputStreamData, Data, s, HandshakeComplete, << >>) : s \in InSeqs}
  \cup {AgentMessage(ChannelClosed, Data, 0, Undefined, p) : p \in ChannelClosedPayloads}
  \cup {AgentMessage(OutputStreamData, Data, 0, Error, << >>),
        AgentMessage(TaskReply, Data, 0, Undefined, << >>),
        AgentMessage("bad", Data, 0, Undefined, << >>)}

UserMsgs ==
  {AgentMessage(InputStreamData, Data, s, Output, OutPayload) : s \in UserSeqs}

(* ------------------------------ actions -------------------------------- *)

\* The channel after Open; no session function is modelled around it.
ChanInit ==
  /\ seqNum = 0
  /\ inSeqNum = 0
  /\ synSent = FALSE
  /\ pausePub = FALSE
  /\ handshakeCh = "open"
  /\ outMsgBuf = NewMessageBuffer(BufSize)
  /\ inMsgBuf = NewMessageBuffer(BufSize)
  /\ wsOpen = TRUE
  /\ waiting \in BOOLEAN
  /\ panicked = FALSE
  /\ swPc = "sleep"
  /\ swMsg = NilMsg
  /\ op = [name |-> "Open", msg |-> NilMsg]
  /\ ret = NoRet
  /\ wsOut = << >>
  /\ delivered = << >>
  /\ sentAny = FALSE
  /\ maxCtr = -1
  /\ acked = {}
  /\ sPc = [p \in Senders |-> "idle"]
  /\ sOp = [p \in Senders |-> [name |-> "", msg |-> NilMsg]]
  /\ mb = NewMessageBuffer(BufSize)
  /\ trav = << >>
  /\ place = 0

Conns == 1..MaxConn

\* The session function's variables with kind k, at its first statement after Open.
OrchInit(k) ==
  /\ kind = k
  /\ mainPc = CASE k = "none" -> "none"
                [] k = "shell" -> "spawn"
                [] OTHER -> "wait"
  /\ retErr = "nil"
  /\ result = "running"
  /\ rdPc = "off"
  /\ rdVal = << >>
  /\ nConn = IF k \in {"ssh", "shell"} THEN 1 ELSE 0
  /\ conn = [i \in Conns |-> IF k \in {"ssh", "shell"} /\ i = 1 THEN "open" ELSE "none"]
  /\ cpPc = [i \in Conns |-> "none"]
  /\ how = [i \in Conns |-> ""]
  /\ errCh = [buf |-> << >>, closed |-> FALSE]
  /\ sigI = 0
  /\ sink = << >>
  /\ closedOutput = << >>
  /\ discs = 0
  /\ sigSent = "none"

Init == ChanInit /\ OrchInit("none")

\* A send that numbers its message from the counter (atomic.AddInt64) and hands it
\* to WriteMsg.
Send(name, flags, ptype, payload) ==
  /\ ~panicked
  /\ seqNum < MaxSeq
  /\ LET r == WriteMsg([Chan EXCEPT !.seqNum = seqNum + 1],
                       AgentMessage(InputStreamData, flags, seqNum + 1, ptype, payload))
     IN /\ SetChan(r.c)
        /\ op' = [name |-> name, msg |-> r.msg]
        /\ ret' = [payload |-> << >>, n |-> r.n, err |-> r.err]
        /\ wsOut' = r.frames
        /\ Wrote(r.frames)
        /\ WroteNumbered(r.frames, r.msg)
  /\ UNCHANGED <<waiting, panicked, swVars, delivered, acked, sndVars, orchVars, bufVars>>

Write == Send("Write", Data, Output, OutPayload)

SetTerminalSize == Send("SetTerminalSize", Data, Size, <<45, 132>>)

TerminateSession == Send("TerminateSession", Fin, Flag, PutUint32(TerminateSessionFlag))

DisconnectPort == Send("DisconnectPort", Data, Flag, PutUint32(DisconnectToPort))

\* A caller's own message handed to WriteMsg.
CallWriteMsg ==
  /\ ~panicked
  /\ \E msg \in UserMsgs :
       LET r == WriteMsg(Chan, msg)
       IN /\ SetChan(r.c)
          /\ op' = [name |-> "WriteMsg", msg |-> r.msg]
          /\ ret' = [payload |-> << >>, n |-> r.n, err |-> r.err]
          /\ wsOut' = r.frames
          /\ Wrote(r.frames)
  /\ UNCHANGED <<waiting, panicked, swVars, delivered, maxCtr, acked, sndVars, orchVars, bufVars>>

\* One turn of the reader: a frame is read and handed to HandleMsg.  Inside
\* WaitForHandshakeComplete the turn is taken only while the latch is not closed,
\* and an error ends the wait.
ReadAndHandle(msgs) ==
  /\ ~panicked
  /\ ~(waiting /\ handshakeCh = "closed")
  /\ \E m \in msgs :
       LET r == HandleMsg(Chan, m)
       IN /\ SetChan(r.c)
          /\ panicked' = (r.err = "panic")
          /\ waiting' = (waiting /\ r.err = "nil")
          /\ op' = [name |-> "HandleMsg", msg |-> m]
          /\ ret' = [payload |-> r.payload, n |-> 0, err |-> r.err]
          /\ wsOut' = r.frames
          /\ delivered' = delivered \o r.drained
          /\ Wrote(r.frames)
          /\ acked' = IF /\ m.MessageType = Acknowledge
                         /\ outMsgBuf # NilBuf
                         /\ m.SequenceNumber \in BufSeqs(outMsgBuf)
                        THEN acked \cup {m.SequenceNumber} ELSE acked
  /\ UNCHANGED <<swVars, maxCtr, sndVars, orchVars, bufVars>>

\* case <-c.handshakeCh: the stream becomes unbuffered.
WaitForHandshakeCompleteReturn ==
  /\ ~panicked
  /\ waiting
  /\ handshakeCh = "closed"
  /\ inMsgBuf' = NilBuf
  /\ outMsgBuf' = NilBuf
  /\ handshakeCh' = "nil"
  /\ waiting' = FALSE
  /\ op' = [name |-> "HandshakeComplete", msg |-> NilMsg]
  /\ ret' = NoRet
  /\ wsOut' = << >>
  /\ UNCHANGED <<seqNum, inSeqNum, synSent, pausePub, wsOpen, panicked, swVars,
                 delivered, histVars, sndVars, orchVars, bufVars>>

Close ==
  /\ ~panicked
  /\ wsOpen
  /\ wsOpen' = FALSE
  /\ op' = [name |-> "Close", msg |-> NilMsg]
  /\ ret' = NoRet
  /\ wsOut' = << >>
  /\ UNCHANGED <<seqNum, inSeqNum, synSent, pausePub, handshakeCh, outMsgBuf, inMsgBuf,
                 waiting, panicked, swVars, delivered, histVars, sndVars, orchVars, bufVars>>

\* processOutboundQueue, after the sleep: the pause check and the nil check.
SweepWake ==
  /\ ~panicked
  /\ swPc = "sleep"
  /\ ~pausePub
  /\ swPc' = IF outMsgBuf = NilBuf THEN "done" ELSE "next"
  /\ op' = [name |-> "sweepWake", msg |-> NilMsg]
  /\ ret' = NoRet
  /\ wsOut' = << >>
  /\ UNCHANGED <<chanVars, swMsg, delivered, histVars, sndVars, orchVars, bufVars>>

\* m = c.outMsgBuf.Next(): a nil buffer reference panics.
SweepNext ==
  /\ ~panicked
  /\ swPc = "next"
  /\ IF outMsgBuf = NilBuf
       THEN /\ panicked' = TRUE
            /\ UNCHANGED <<outMsgBuf, swVars>>
       ELSE LET r == Next(outMsgBuf)
            IN /\ outMsgBuf' = r.b
               /\ swMsg' = r.msg
               /\ swPc' = IF r.msg = NilMsg THEN "sleep" ELSE "write"
               /\ UNCHANGED panicked
  /\ op' = [name |-> "sweepNext", msg |-> NilMsg]
  /\ ret' = NoRet
  /\ wsOut' = << >>
  /\ UNCHANGED <<seqNum, inSeqNum, synSent, pausePub, handshakeCh, inMsgBuf, wsOpen,
                 waiting, delivered, histVars, sndVars, orchVars, bufVars>>

\* c.WriteMsg(m) of the sweep.
SweepWrite ==
  /\ ~panicked
  /\ swPc = "write"
  /\ LET r == WriteMsg(Chan, swMsg)
     IN /\ SetChan(r.c)
        /\ op' = [name |-> "retransmit", msg |-> swMsg]
        /\ ret' = [payload |-> << >>, n |-> r.n, err |-> r.err]
        /\ wsOut' = r.frames
        /\ Wrote(r.frames)
  /\ swPc' = "next"
  /\ swMsg' = NilMsg
  /\ UNCHANGED <<waiting, panicked, delivered, maxCtr, acked, sndVars, orchVars, bufVars>>

\* The calls each concurrent sender makes: the copier writes, the other goroutine
\* resizes the terminal or ends the stream.
SenderCalls(p) ==
  IF p = 1
    THEN {[name |-> "Write", flags |-> Data, ptype |-> Output, payload |-> OutPayload]}
    ELSE {[name |-> "SetTerminalSize", flags |-> Data, ptype |-> Size,
           payload |-> <<45, 132>>],
          [name |-> "TerminateSession", flags |-> Fin, ptype |-> Flag,
           payload |-> PutUint32(TerminateSessionFlag)],
          [name |-> "DisconnectPort", flags |-> Data, ptype |-> Flag,
           payload |-> PutUint32(DisconnectToPort)]}

\* What a sender's step that writes nothing leaves behind.
SenderStep(p, pc, name) ==
  /\ sPc' = [sPc EXCEPT ![p] = pc]
  /\ op' = [name |-> name, msg |-> NilMsg]
  /\ ret' = NoRet
  /\ wsOut' = << >>
  /\ UNCHANGED <<inSeqNum, synSent, pausePub, handshakeCh, outMsgBuf, inMsgBuf, wsOpen,
                 waiting, panicked, swVars, delivered, histVars, orchVars, bufVars>>

\* msg.SequenceNumber = atomic.AddInt64(&c.seqNum, 1), outside any lock.
SenderBegin(p) ==
  /\ ~panicked
  /\ sPc[p] = "idle"
  /\ seqNum < MaxSeq
  /\ \E k \in SenderCalls(p) :
       sOp' = [sOp EXCEPT ![p] =
                 [name |-> k.name,
                  msg |-> AgentMessage(InputStreamData, k.flags, seqNum + 1, k.ptype,
                                       k.payload)]]
  /\ seqNum' = seqNum + 1
  /\ SenderStep(p, "check", "AddInt64")

\* if !c.synSent, read without the lock.
SenderCheck(p) ==
  /\ sPc[p] = "check"
  /\ SenderStep(p, IF synSent THEN "lock" ELSE "store", "readSynSent")
  /\ UNCHANGED <<seqNum, sOp>>

\* atomic.StoreInt64(&c.seqNum, 0)
SenderStore(p) ==
  /\ sPc[p] = "store"
  /\ seqNum' = 0
  /\ SenderStep(p, "flag", "StoreInt64")
  /\ UNCHANGED sOp

\* msg.Flags = Syn; msg.SequenceNumber = c.seqNum
SenderFlag(p) ==
  /\ sPc[p] = "flag"
  /\ sOp' = [sOp EXCEPT ![p].msg.Flags = Syn, ![p].msg.SequenceNumber = seqNum]
  /\ SenderStep(p, "lock", "setSyn")
  /\ UNCHANGED seqNum

\* c.mu.Lock() ... the deferred Unlock: the part of WriteMsg under the mutex.
SenderLocked(p) ==
  /\ sPc[p] = "lock"
  /\ LET r == WriteMsgLocked(Chan, sOp[p].msg)
     IN /\ SetChan(r.c)
        /\ op' = [name |-> sOp[p].name, msg |-> r.msg]
        /\ ret' = [payload |-> << >>, n |-> r.n, err |-> r.err]
        /\ wsOut' = r.frames
        /\ Wrote(r.frames)
        /\ WroteNumbered(r.frames, r.msg)
  /\ sPc' = [sPc EXCEPT ![p] = "idle"]
  /\ UNCHANGED <<waiting, panicked, swVars, delivered, acked, sOp, orchVars, bufVars>>

\* The messages that steer the sending side: acknowledges, pause and resume, and
\* the end of the handshake.
CtrlMsgs ==
  {m \in InMsgs : \/ m.MessageType \in {Acknowledge, PausePublication, StartPublication}
                  \/ m.PayloadType = HandshakeComplete}

\* The receiving side: the reader, with every kind of inbound frame.  The send
\* operations touch no field the reader's path reads except synSent, which the
\* reader's own first acknowledge sets as well.
InNext ==
  \/ ReadAndHandle(InMsgs)
  \/ WaitForHandshakeCompleteReturn
  \/ Close

SpecIn == Init /\ [][InNext]_vars

\* Pause, resume and the end of the handshake.
FlowMsgs == {m \in CtrlMsgs : m.MessageType # Acknowledge /\ m.SequenceNumber = 0}

\* The acknowledges of what has been sent.
RetxMsgs ==
  {m \in CtrlMsgs : m.MessageType = Acknowledge /\ m.SequenceNumber \in 0..seqNum}

\* A shell session: WaitForHandshakeComplete is never called, both buffers stay.
ShellInit == Init /\ ~waiting

\* The sending side, call after call: every send operation, under pause and resume
\* and across the end of the handshake; the sweeper stays asleep.
SendNext ==
  \/ Write
  \/ SetTerminalSize
  \/ TerminateSession
  \/ DisconnectPort
  \/ CallWriteMsg
  \/ ReadAndHandle(FlowMsgs)
  \/ WaitForHandshakeCompleteReturn

SpecSend == Init /\ [][SendNext]_vars

\* Retransmission in a shell session: Write, the acknowledges of the peer and the
\* sweeper; publication is never paused.
RetxNext ==
  \/ Write
  \/ ReadAndHandle(RetxMsgs)
  \/ SweepWake
  \/ SweepNext
  \/ SweepWrite

SpecRetx == ShellInit /\ [][RetxNext]_vars

\* A port or ssh session: WaitForHandshakeComplete is called right after Open.
PortInit == Init /\ waiting

\* Output data and the end of the handshake.
StreamMsgs ==
  {m \in InMsgs : m.MessageType = OutputStreamData /\ m.PayloadType = Output}
  \cup {m \in FlowMsgs : m.PayloadType = HandshakeComplete}

\* A port or ssh session across the end of the handshake: output data arriving in
\* any order, and Write.
StreamNext ==
  \/ Write
  \/ ReadAndHandle(StreamMsgs)
  \/ WaitForHandshakeCompleteReturn

SpecStream == PortInit /\ [][StreamNext]_vars

\* The send operations alone, call after call, by one goroutine.
CallsNext ==
  \/ Write
  \/ SetTerminalSize
  \/ TerminateSession
  \/ DisconnectPort
  \/ CallWriteMsg

SpecCalls == ShellInit /\ [][CallsNext]_vars

\* Two goroutines sending at once, statement by statement.
ConcNext ==
  \E p \in Senders :
    \/ SenderBegin(p)
    \/ SenderCheck(p)
    \/ SenderStore(p)
    \/ SenderFlag(p)
    \/ SenderLocked(p)

SpecConc == ShellInit /\ [][ConcNext]_vars

\* Retransmission with the sweeper goroutine kept running: it sleeps, wakes and
\* walks the buffer for ever.
SpecQuiesce ==
  /\ ShellInit
  /\ [][RetxNext]_vars
  /\ WF_vars(SweepWake)
  /\ WF_vars(SweepNext)
  /\ WF_vars(SweepWrite)

\* The sweeper across the end of the handshake and Close, with pause and resume;
\* the goroutine is kept running.
StopNext ==
  \/ Write
  \/ ReadAndHandle(FlowMsgs)
  \/ WaitForHandshakeCompleteReturn
  \/ Close
  \/ SweepWake
  \/ SweepNext
  \/ SweepWrite

SpecStop ==
  /\ Init
  /\ [][StopNext]_vars
  /\ WF_vars(SweepWake)
  /\ WF_vars(SweepNext)
  /\ WF_vars(SweepWrite)

(* what is kept for retransmission *)

\* The acknowledges of what has been sent, and a handshake request.
KeepMsgs ==
  RetxMsgs
  \cup {AgentMessage(OutputStreamData, Data, 0, HandshakeRequest,
                     <<[RequestedClientActions |-> <<SessionType>>]>>)}

\* Write, the reader answering acknowledges and the handshake request (each with
\* an acknowledge of its own), and the sweeper.
KeepNext ==
  \/ Write
  \/ ReadAndHandle(KeepMsgs)
  \/ SweepWake
  \/ SweepNext
  \/ SweepWrite

SpecKeep == PortInit /\ [][KeepNext]_vars

(* the handshake request *)

\* The RequestedClientActions lists tried, each action kept as its ActionType.
ActionLists ==
  UNION {[1..n -> {SessionType, KMSEncryption}] : n \in 0..MaxActions}

\* The sequence numbers of the requests.
HsSeqs == (-1)..1

\* The handshake requests, and pause and resume.
HsMsgs ==
  {AgentMessage(OutputStreamData, Data, s, HandshakeRequest,
                <<[RequestedClientActions |-> l]>>) : s \in HsSeqs, l \in ActionLists}
  \cup {m \in FlowMsgs : m.MessageType \in {PausePublication, StartPublication}}

\* The reader answering handshake requests, before and after the first Write.
HsNext ==
  \/ Write
  \/ ReadAndHandle(HsMsgs)

SpecHs == Init /\ [][HsNext]_vars

(* messageBuffer used on its own *)

\* The messages handed to Add: one for each sequence number 0..BufSize, and a
\* second, different message with sequence number 0.
BufMsgs ==
  {AgentMessage(InputStreamData, Data, s, Output, OutPayload) : s \in 0..BufSize}
  \cup {AgentMessage(InputStreamData, Data, 0, Output, PayloadOf(0))}

BufAdd(msg) ==
  /\ mb' = Add(mb, msg).b
  /\ op' = [name |-> "Add", msg |-> msg]
  /\ ret' = [payload |-> << >>, n |-> 0, err |-> Add(mb, msg).err]
  /\ UNCHANGED <<chanVars, swVars, wsOut, delivered, histVars, sndVars, orchVars, trav, place>>

BufGet(seq) ==
  /\ op' = [name |-> "Get", msg |-> NilMsg]
  /\ ret' = [msg |-> Get(mb, seq)]
  /\ UNCHANGED <<chanVars, swVars, wsOut, delivered, histVars, sndVars, orchVars, bufVars>>

BufCallNext ==
  /\ mb' = Next(mb).b
  /\ op' = [name |-> "Next", msg |-> NilMsg]
  /\ ret' = [msg |-> Next(mb).msg]
  /\ trav' = IF Next(mb).msg = NilMsg THEN << >> ELSE Append(trav, Next(mb).msg)
  /\ place' = NextEl(mb)
  /\ UNCHANGED <<chanVars, swVars, wsOut, delivered, histVars, sndVars, orchVars>>

BufNext ==
  \/ \E msg \in BufMsgs : BufAdd(msg)
  \/ \E seq \in 0..BufSize : BufGet(seq)
  \/ BufCallNext

SpecBuf == Init /\ [][BufNext]_vars

\* Remove in the middle of a walk.  place follows the cursor: Next moves it to the
\* element returned, and the removal of an element at or before it (the cursor's
\* own element included) moves it one back, so that the elements behind place
\* are the ones still lying after the cursor.
BufRemove(seq) ==
  /\ mb' = Remove(mb, seq)
  /\ op' = [name |-> "Remove", msg |-> Get(mb, seq)]
  /\ ret' = [msg |-> NilMsg]
  /\ place' = IF seq \in DOMAIN mb.seqMap /\ mb.seqMap[seq] <= place
                THEN place - 1 ELSE place
  /\ trav' = << >>
  /\ UNCHANGED <<chanVars, swVars, wsOut, delivered, histVars, sndVars, orchVars>>

\* Next in a buffer that Remove is used on: the walk is not recorded.
BufCallNextPlace ==
  /\ mb' = Next(mb).b
  /\ op' = [name |-> "Next", msg |-> NilMsg]
  /\ ret' = [msg |-> Next(mb).msg]
  /\ place' = NextEl(mb)
  /\ trav' = << >>
  /\ UNCHANGED <<chanVars, swVars, wsOut, delivered, histVars, sndVars, orchVars>>

\* The buffer with all four operations in any order.
BufRmNext ==
  \/ \E msg \in BufMsgs : BufAdd(msg)
  \/ \E seq \in 0..BufSize : BufGet(seq)
  \/ \E seq \in 0..BufSize : BufRemove(seq)
  \/ BufCallNextPlace

SpecBufRm == Init /\ [][BufRmNext]_vars

(* --------------------- the AgentMessage wire format -------------------- *)

\* A frame is kept as its fixed-width header fields (bytes 0..111) and, as
\* bytes, everything from offset 112 on (rest): PayloadType, payloadLength and
\* Payload, whose offsets depend on headerLength.  A MessageType is a sequence
\* of bytes (97 a letter, 32 a space, 0 a NUL).
agentMsgHeaderLen == 116

Rep(b, n) == [i \in 1..n |-> b]

\* binary.BigEndian.Uint32 of four bytes.
Uint32(b) == ((b[1] * 256 + b[2]) * 256 + b[3]) * 256 + b[4]

\* sha256 of a payload: a value that two payloads share only when they are equal.
sha256(payload) == [sum |-> payload]

\* time.Time{} and time.Time.IsZero: only the zero value is the zero instant.
ZeroTime == [zero |-> TRUE]

IsZero(t) == t = ZeroTime

\* time.Unix(0, ms * 1e6): an instant counted from 1970, never the zero instant.
parseTime(ts) == [unixMs |-> ts]

\* formatUUIDBytes: the two 8-byte halves exchanged.
formatUUIDBytes(id) == <<id[2], id[1]>>

\* convertMessageType: space-padded to 32 bytes, and cut at 32.
convertMessageType(t) ==
  SubSeq(IF Len(t) >= 32 THEN t ELSE t \o Rep(32, 32 - Len(t)), 1, 32)

RECURSIVE TrimRightNul(_)
TrimRightNul(s) ==
  IF s # << >> /\ s[Len(s)] = 0 THEN TrimRightNul(SubSeq(s, 1, Len(s) - 1)) ELSE s

IsSpace(b) == b \in {9, 10, 11, 12, 13, 32}

RECURSIVE TrimSpace(_)
TrimSpace(s) ==
  IF s = << >> THEN s
  ELSE IF IsSpace(s[1]) THEN TrimSpace(Tail(s))
  ELSE IF IsSpace(s[Len(s)]) THEN TrimSpace(SubSeq(s, 1, Len(s) - 1))
  ELSE s

\* parseMessageType: bytes.TrimSpace(bytes.TrimRight(data, "\x00")).
parseMessageType(data) == TrimSpace(TrimRightNul(data))

\* sha256PayloadDigest stores the digest in the receiver and returns it.
sha256PayloadDigest(m) == [m EXCEPT !.payloadDigest = sha256(m.Payload)]

\* ValidateMessage on all the fields: the receiver after the call and the error.
\* The last test is bytes.Equal(m.sha256PayloadDigest(), m.payloadDigest): the
\* call stores the fresh digest in m.payloadDigest, and Go does not order the
\* read of the second operand against the call, so the field is read either
\* before the call (readFirst, the received digest) or after it (the digest
\* just stored).
ValidateAgentMessage(m, readFirst) ==
  LET fail(e) == [msg |-> m, err |-> e] IN
  IF m.headerLength > agentMsgHeaderLen \/ m.headerLength < agentMsgHeaderLen - 4
  THEN fail("invalid message header length")
  ELSE IF m.schemaVersion < 1 THEN fail("invalid schema version")
  ELSE IF Len(m.MessageType) < 10 THEN fail("invalid message type")
  ELSE IF IsZero(m.createdDate) THEN fail("invalid message date")
  ELSE IF Len(m.messageID) # 2 THEN fail("invalid message id")
  ELSE IF Len(m.Payload) # m.payloadLength THEN fail("payload length mismatch")
  ELSE LET m1 == sha256PayloadDigest(m)
           second == IF readFirst THEN m.payloadDigest ELSE m1.payloadDigest
       IN  [msg |-> m1,
            err |-> IF m1.payloadDigest # second THEN "payload digest mismatch"
                    ELSE "nil"]

\* MarshalBinary: the frame and the error.
MarshalBinary(m) ==
  LET m1 == [sha256PayloadDigest(m) EXCEPT !.payloadLength = Len(m.Payload)]
      v == ValidateAgentMessage(m1, FALSE)
  IN  IF v.err # "nil" THEN [data |-> << >>, err |-> v.err]
      ELSE [data |-> [headerLength |-> m1.headerLength,
                      messageType |-> convertMessageType(m1.MessageType),
                      schemaVersion |-> m1.schemaVersion,
                      createdDate |-> m1.createdDate.unixMs,
                      SequenceNumber |-> m1.SequenceNumber,
                      Flags |-> m1.Flags,
                      messageID |-> formatUUIDBytes(m1.messageID),
                      payloadDigest |-> v.msg.payloadDigest,
                      rest |-> PutUint32(m1.PayloadType)
                               \o PutUint32(m1.payloadLength) \o m1.Payload],
            err |-> "nil"]

\* UnmarshalBinary into a new AgentMessage, for 112 <= headerLength <= 116: the
\* message and the error.  A slice past the end of the data is kept as a panic
\* (with spare capacity behind the data it would read what lies there instead).
UnmarshalBinary(data, readFirst) ==
  LET off == data.headerLength - 112
      plen == Uint32(SubSeq(data.rest, off + 1, off + 4))
      m == [headerLength |-> data.headerLength,
            MessageType |-> parseMessageType(data.messageType),
            schemaVersion |-> data.schemaVersion,
            createdDate |-> parseTime(data.createdDate),
            SequenceNumber |-> data.SequenceNumber,
            Flags |-> data.Flags,
            messageID |-> formatUUIDBytes(data.messageID),
            payloadDigest |-> data.payloadDigest,
            PayloadType |-> IF data.headerLength = agentMsgHeaderLen
                            THEN Uint32(SubSeq(data.rest, 1, 4)) ELSE 0,
            payloadLength |-> plen,
            Payload |-> SubSeq(data.rest, off + 5, off + 4 + plen)]
  IN  IF Len(data.rest) < off + 4 THEN [msg |-> NilMsg, err |-> "panic"]
      ELSE IF Len(data.rest) < off + 4 + plen THEN [msg |-> NilMsg, err |-> "panic"]
      ELSE ValidateAgentMessage(m, readFirst)

\* The message types tried: 9, 10, 32 and 33 letters, and 10 letters with a
\* space or a NUL before or after.
CodecTypes ==
  {Rep(97, 9), Rep(97, 10), Rep(97, 32), Rep(97, 33),
   Rep(97, 10) \o <<32>>, <<32>> \o Rep(97, 10), Rep(97, 10) \o <<0>>}

CodecPayloads == {<< >>, <<7>>, <<7, 9>>}

\* The messages handed to MarshalBinary.
CodecMsgs ==
  [headerLength : {111, 112, 116, 117},
   MessageType : CodecTypes,
   schemaVersion : {0, 1},
   createdDate : {ZeroTime, parseTime(0), parseTime(5)},
   SequenceNumber : {0, 1},
   Flags : {Data, Fin},
   messageID : {<<1, 2>>},
   payloadDigest : {sha256(<< >>)},
   PayloadType : {Undefined, Output, HandshakeRequest},
   payloadLength : {0},
   Payload : CodecPayloads]

\* Frames as the service sends them: the 32-byte type padded with spaces or with
\* NULs, the digest of the payload, the PayloadType only in a 116-byte header.
PeerFrames ==
  {[headerLength |-> hl,
    messageType |-> t \o Rep(pad, 32 - Len(t)),
    schemaVersion |-> sv,
    createdDate |-> ts,
    SequenceNumber |-> 0,
    Flags |-> Data,
    messageID |-> <<1, 2>>,
    payloadDigest |-> sha256(p),
    rest |-> (IF hl = agentMsgHeaderLen THEN PutUint32(Output) ELSE << >>)
             \o PutUint32(Len(p)) \o p] :
     hl \in {112, agentMsgHeaderLen}, t \in {Rep(97, 9), Rep(97, 10)},
     pad \in {0, 32}, sv \in {0, 1}, ts \in {0, 5}, p \in CodecPayloads}

\* The frame with the i-th byte of its payload changed.
AlterPayload(data, i) ==
  [data EXCEPT !.rest[8 + i] = (@ + 1) % 128]

CodecLeaves ==
  UNCHANGED <<chanVars, swVars, wsOut, delivered, histVars, sndVars, orchVars, bufVars>>

\* The functions keep nothing between calls: each behaviour takes one input.
CodecEncode(m) ==
  /\ op.name = "Open"
  /\ op' = [name |-> "MarshalBinary", msg |-> m]
  /\ ret' = MarshalBinary(m)
  /\ CodecLeaves

CodecDecodeData(input, m, data, readFirst) ==
  /\ op' = [name |-> "UnmarshalBinary", input |-> input, msg |-> m, data |-> data]
  /\ ret' = UnmarshalBinary(data, readFirst)
  /\ CodecLeaves

\* Decode of the frame just encoded.
CodecDecode ==
  /\ op.name = "MarshalBinary" /\ ret.err = "nil"
  /\ \E readFirst \in BOOLEAN : CodecDecodeData("encoded", op.msg, ret.data, readFirst)

\* Decode of the frame just encoded, one payload byte changed on the way.
CodecDecodeAltered ==
  /\ op.name = "MarshalBinary" /\ ret.err = "nil"
  /\ \E i \in 1..Len(op.msg.Payload), readFirst \in BOOLEAN :
       CodecDecodeData("altered", op.msg, AlterPayload(ret.data, i), readFirst)

\* Decode of a frame of the service.
CodecDecodePeer ==
  /\ op.name = "Open"
  /\ \E data \in PeerFrames, readFirst \in BOOLEAN :
       CodecDecodeData("peer", NilMsg, data, readFirst)

CodecNext ==
  \/ \E m \in CodecMsgs : CodecEncode(m)
  \/ CodecDecode
  \/ CodecDecodeAltered
  \/ CodecDecodePeer

SpecCodec == Init /\ [][CodecNext]_vars

(* ------------------ ssmclient: the session functions ------------------- *)

\* What the agent sends in these sessions: output, the end of the handshake,
\* channel_closed with Output bytes, and a message type HandleMsg does not know.
OrchMsgs ==
  {m \in InMsgs :
     \/ IsOutput(m) /\ m.SequenceNumber = 0
     \/ m.PayloadType = HandshakeComplete /\ m.SequenceNumber = 0
     \/ m.MessageType = ChannelClosed /\ m.Payload = <<[Output |-> <<98, 121, 101>>]>>
     \/ m.MessageType = TaskReply}

\* The same with pause and start of publication.
PauseMsgs ==
  OrchMsgs \cup {m \in InMsgs : /\ m.MessageType \in {PausePublication, StartPublication}
                                /\ m.SequenceNumber = 0}

\* The errors of Read: a close error (turned into io.EOF) or any other.
ReadErrs == {[err |-> "EOF"], [err |-> "read error"]}

\* What a Read can yield: a frame, or an error; only an error once the WebSocket
\* has been closed locally.
Reads(msgs) == IF wsOpen THEN msgs \cup ReadErrs ELSE ReadErrs

\* Read followed by HandleMsg, as every reader loop does.
ReadHandle(in) ==
  IF in \in ReadErrs THEN Return(Chan, << >>, in.err, << >>) ELSE HandleMsg(Chan, in)

\* The channel and the observations after a reader's turn on input in.
ReaderTurn(in) ==
  LET r == ReadHandle(in)
  IN /\ SetChan(r.c)
     /\ panicked' = (r.err = "panic")
     /\ op' = IF in \in ReadErrs THEN [name |-> "Read", msg |-> NilMsg]
                                ELSE [name |-> "HandleMsg", msg |-> in]
     /\ ret' = [payload |-> r.payload, n |-> 0, err |-> r.err]
     /\ wsOut' = r.frames
     /\ delivered' = delivered \o r.drained
     /\ Wrote(r.frames)
     /\ closedOutput' = IF in \notin ReadErrs /\ r.err = "EOF" /\ r.payload # << >>
                          THEN r.payload ELSE closedOutput
     /\ UNCHANGED <<maxCtr, acked, swVars, sndVars>>

\* A counter-numbered send made by a session function or one of its goroutines.
OrchCall(name, flags, ptype, payload) ==
  LET r == WriteMsg([Chan EXCEPT !.seqNum = seqNum + 1],
                    AgentMessage(InputStreamData, flags, seqNum + 1, ptype, payload))
  IN /\ SetChan(r.c)
     /\ op' = [name |-> name, msg |-> r.msg]
     /\ ret' = [payload |-> << >>, n |-> r.n, err |-> r.err]
     /\ wsOut' = r.frames
     /\ Wrote(r.frames)
     /\ WroteNumbered(r.frames, r.msg)
     /\ UNCHANGED <<delivered, acked, swVars, sndVars>>

\* A step that does not touch the channel.
OrchQuiet(name) ==
  /\ op' = [name |-> name, msg |-> NilMsg]
  /\ ret' = NoRet
  /\ wsOut' = << >>
  /\ UNCHANGED <<seqNum, inSeqNum, synSent, pausePub, handshakeCh, outMsgBuf, inMsgBuf,
                 wsOpen, panicked, delivered, histVars, swVars, sndVars>>

Running == result = "running" /\ ~panicked

\* Mutant of AfterWait: the error of the wait is ignored.
AfterWaitIgnoringErr(k, err) == IF k = "port" THEN "listen" ELSE "spawn"

\* Where the session function goes when WaitForHandshakeComplete returns err.
AfterWait(k, err) ==
  IF err # "nil" THEN "deferTerm" ELSE IF k = "port" THEN "listen" ELSE "spawn"

\* WaitForHandshakeComplete, default case: Read and HandleMsg; an error ends the
\* wait and the session function returns it (through its deferred calls).
OrchHandshakeRead(msgs) ==
  /\ Running
  /\ mainPc = "wait"
  /\ handshakeCh # "closed"
  /\ \E in \in Reads(msgs) :
       /\ ReaderTurn(in)
       /\ mainPc' = IF ReadHandle(in).err = "nil" THEN "wait"
                    ELSE AfterWait(kind, ReadHandle(in).err)
       /\ retErr' = ReadHandle(in).err
       /\ waiting' = (ReadHandle(in).err = "nil")
  /\ UNCHANGED <<bufVars, kind, result, rdPc, rdVal, nConn, conn, cpPc, how, errCh, sigI, sink,
                 discs, sigSent>>

\* WaitForHandshakeComplete, case <-c.handshakeCh: unbuffered from here on; the
\* port session goes on to listen, the ssh session to copy.
OrchHandshakeDone ==
  /\ Running
  /\ mainPc = "wait"
  /\ handshakeCh = "closed"
  /\ inMsgBuf' = NilBuf
  /\ outMsgBuf' = NilBuf
  /\ handshakeCh' = "nil"
  /\ waiting' = FALSE
  /\ mainPc' = AfterWait(kind, "nil")
  /\ op' = [name |-> "HandshakeComplete", msg |-> NilMsg]
  /\ ret' = NoRet
  /\ wsOut' = << >>
  /\ UNCHANGED <<seqNum, inSeqNum, synSent, pausePub, wsOpen, panicked, delivered,
                 histVars, swVars, sndVars>>
  /\ UNCHANGED <<bufVars, kind, retErr, result, rdPc, rdVal, nConn, conn, cpPc, how, errCh, sigI,
                 sink, closedOutput, discs, sigSent>>

\* The deferred calls of PortForwardingSession and SSHSession: TerminateSession ...
DeferTerminate ==
  /\ Running
  /\ mainPc = "deferTerm"
  /\ OrchCall("deferTerminateSession", Fin, Flag, PutUint32(TerminateSessionFlag))
  /\ mainPc' = "deferClose"
  /\ UNCHANGED <<waiting, panicked, bufVars, kind, retErr, result, rdPc, rdVal, nConn, conn, cpPc, how,
                 errCh, sigI, sink, closedOutput, discs, sigSent>>

\* ... and Close (the only deferred call of ShellSession); the function returns.
DeferClose ==
  /\ Running
  /\ mainPc = "deferClose"
  /\ wsOpen' = FALSE
  /\ mainPc' = "done"
  /\ result' = "returned"
  /\ op' = [name |-> "deferClose", msg |-> NilMsg]
  /\ ret' = NoRet
  /\ wsOut' = << >>
  /\ UNCHANGED <<seqNum, inSeqNum, synSent, pausePub, handshakeCh, outMsgBuf, inMsgBuf,
                 waiting, panicked, delivered, histVars, swVars, sndVars>>
  /\ UNCHANGED <<bufVars, kind, retErr, rdPc, rdVal, nConn, conn, cpPc, how, errCh, sigI, sink,
                 closedOutput, discs, sigSent>>

(* PortForwardingSession *)

\* net.Listen, the listener, the channels and messageChannel's goroutine.
PfListen ==
  /\ Running
  /\ kind = "port"
  /\ mainPc = "listen"
  /\ mainPc' = "accept"
  /\ rdPc' = "read"
  /\ OrchQuiet("Listen")
  /\ UNCHANGED <<waiting, bufVars, kind, retErr, result, rdVal, nConn, conn, cpPc, how, errCh,
                 sigI, sink, closedOutput, discs, sigSent>>

\* lsnr.Accept returns a connection of a local client; its copier is started.
PfAccept ==
  /\ Running
  /\ mainPc = "accept"
  /\ nConn < MaxConn
  /\ nConn' = nConn + 1
  /\ conn' = [conn EXCEPT ![nConn + 1] = "open"]
  /\ cpPc' = [cpPc EXCEPT ![nConn + 1] = "copy"]
  /\ discs' = 0
  /\ mainPc' = "select"
  /\ OrchQuiet("Accept")
  /\ UNCHANGED <<waiting, bufVars, kind, retErr, result, rdPc, rdVal, how, errCh, sigI, sink,
                 closedOutput, sigSent>>

\* messageChannel's goroutine: Read, HandleMsg; an error is for errCh and the
\* payload that came with it is dropped; a payload is for inCh.
PfReader(msgs) ==
  /\ Running
  /\ rdPc = "read"
  /\ \E in \in Reads(msgs) :
       /\ ReaderTurn(in)
       /\ rdPc' = IF ReadHandle(in).err # "nil" THEN "sendErr"
                  ELSE IF ReadHandle(in).payload # << >> THEN "sendData" ELSE "read"
       /\ rdVal' = IF ReadHandle(in).err = "nil" THEN ReadHandle(in).payload ELSE << >>
  /\ UNCHANGED <<waiting, bufVars, kind, mainPc, retErr, result, nConn, conn, cpPc, how, errCh,
                 sigI, sink, discs, sigSent>>

\* case <-doneCh: DisconnectPort, break inner, conn.Close, back to Accept.
PfSelectDone(i) ==
  /\ Running
  /\ mainPc = "select"
  /\ cpPc[i] = "sendDone"
  /\ cpPc' = [cpPc EXCEPT ![i] = "end"]
  /\ OrchCall("DisconnectPort", Data, Flag, PutUint32(DisconnectToPort))
  /\ discs' = discs + 1
  /\ conn' = [conn EXCEPT ![nConn] = "closed"]
  /\ mainPc' = "accept"
  /\ UNCHANGED <<waiting, panicked, bufVars, kind, retErr, result, rdPc, rdVal, nConn, how, errCh,
                 sigI, sink, closedOutput, sigSent>>

\* case data, ok := <-inCh with ok: conn.Write(data); its error is only logged.
PfSelectData ==
  /\ Running
  /\ mainPc = "select"
  /\ rdPc = "sendData"
  /\ sink' = IF conn[nConn] \in {"open", "eof"} THEN rdVal ELSE sink
  /\ rdPc' = "read"
  /\ rdVal' = << >>
  /\ OrchQuiet("connWrite")
  /\ UNCHANGED <<waiting, bufVars, kind, mainPc, retErr, result, nConn, conn, cpPc, how, errCh,
                 sigI, closedOutput, discs, sigSent>>

\* case data, ok := <-inCh with inCh closed: conn.Close, break outer, return nil.
PfSelectClosed ==
  /\ Running
  /\ mainPc = "select"
  /\ rdPc = "closed"
  /\ conn' = [conn EXCEPT ![nConn] = "closed"]
  /\ mainPc' = "deferTerm"
  /\ retErr' = "nil"
  /\ OrchQuiet("inChClosed")
  /\ UNCHANGED <<waiting, bufVars, kind, result, rdPc, rdVal, nConn, cpPc, how, errCh, sigI, sink,
                 closedOutput, discs, sigSent>>

\* case er, ok := <-errCh, sent by messageChannel's goroutine, which then returns
\* and closes inCh: break inner, conn.Close, back to Accept.
PfSelectReaderErr ==
  /\ Running
  /\ mainPc = "select"
  /\ rdPc = "sendErr"
  /\ rdPc' = "closed"
  /\ conn' = [conn EXCEPT ![nConn] = "closed"]
  /\ mainPc' = "accept"
  /\ OrchQuiet("errChReader")
  /\ UNCHANGED <<waiting, bufVars, kind, retErr, result, rdVal, nConn, cpPc, how, errCh, sigI,
                 sink, closedOutput, discs, sigSent>>

\* case er, ok := <-errCh, sent by a copier, which goes on to doneCh <- true.
PfSelectCopierErr(i) ==
  /\ Running
  /\ mainPc = "select"
  /\ cpPc[i] = "sendErr"
  /\ cpPc' = [cpPc EXCEPT ![i] = "sendDone"]
  /\ conn' = [conn EXCEPT ![nConn] = "closed"]
  /\ mainPc' = "accept"
  /\ OrchQuiet("errChCopier")
  /\ UNCHANGED <<waiting, bufVars, kind, retErr, result, rdPc, rdVal, nConn, how, errCh, sigI,
                 sink, closedOutput, discs, sigSent>>

(* io.Copy(c, conn) and io.Copy(c, os.Stdin): ReadFrom *)

\* Where a copier goes when ReadFrom returns: in the port session to errCh <- err
\* or doneCh <- true; in the ssh and shell sessions it ends (after errCh <- err).
CopierAfter(k, failed) ==
  IF k = "port" THEN (IF failed THEN "sendErr" ELSE "sendDone") ELSE "end"

\* errCh <- err of the ssh and shell sessions (buffered); a send on the closed
\* channel panics.
ErrChSend(k, failed) ==
  IF k = "port" \/ ~failed THEN errCh
  ELSE [errCh EXCEPT !.buf = Append(errCh.buf, "copy error")]

\* r.Read yields bytes and c.Write sends them; a Write error ends the copy.
CopyData(i) ==
  /\ Running
  /\ cpPc[i] = "copy"
  /\ conn[i] = "open"
  /\ seqNum < MaxSeq
  /\ OrchCall("Write", Data, Output, OutPayload)
  /\ LET failed == ret'.err # "nil"
     IN /\ cpPc' = [cpPc EXCEPT ![i] = IF failed THEN CopierAfter(kind, TRUE) ELSE "copy"]
        /\ how' = [how EXCEPT ![i] = IF failed THEN "err" ELSE @]
        /\ errCh' = ErrChSend(kind, failed /\ ~errCh.closed)
        /\ panicked' = (failed /\ kind # "port" /\ errCh.closed)
  /\ UNCHANGED <<waiting, bufVars, kind, mainPc, retErr, result, rdPc, rdVal, nConn, conn, sigI,
                 sink, closedOutput, discs, sigSent>>

\* r.Read returns io.EOF (the local peer closed, stdin ended): ReadFrom returns nil.
CopyEnd(i) ==
  /\ Running
  /\ cpPc[i] = "copy"
  /\ conn[i] = "eof"
  /\ cpPc' = [cpPc EXCEPT ![i] = CopierAfter(kind, FALSE)]
  /\ how' = [how EXCEPT ![i] = "eof"]
  /\ OrchQuiet("copyEOF")
  /\ UNCHANGED <<waiting, bufVars, kind, mainPc, retErr, result, rdPc, rdVal, nConn, conn, errCh,
                 sigI, sink, closedOutput, discs, sigSent>>

\* r.Read returns another error (reset by the peer, closed by this process).
CopyFail(i) ==
  /\ Running
  /\ cpPc[i] = "copy"
  /\ conn[i] \in {"reset", "closed"}
  /\ cpPc' = [cpPc EXCEPT ![i] = CopierAfter(kind, TRUE)]
  /\ how' = [how EXCEPT ![i] = "err"]
  /\ errCh' = ErrChSend(kind, ~errCh.closed)
  /\ op' = [name |-> "copyError", msg |-> NilMsg]
  /\ ret' = NoRet
  /\ wsOut' = << >>
  /\ panicked' = (kind # "port" /\ errCh.closed)
  /\ UNCHANGED <<seqNum, inSeqNum, synSent, pausePub, handshakeCh, outMsgBuf, inMsgBuf,
                 wsOpen, delivered, histVars, swVars, sndVars>>
  /\ UNCHANGED <<waiting, bufVars, kind, mainPc, retErr, result, rdPc, rdVal, nConn, conn, sigI,
                 sink, closedOutput, discs, sigSent>>

\* The local peer closes its end of connection i (stdin reaches its end).
LocalClose(i) ==
  /\ Running
  /\ conn[i] = "open"
  /\ cpPc[i] = "copy"
  /\ conn' = [conn EXCEPT ![i] = "eof"]
  /\ OrchQuiet("localClose")
  /\ UNCHANGED <<waiting, bufVars, kind, mainPc, retErr, result, rdPc, rdVal, nConn, cpPc, how,
                 errCh, sigI, sink, closedOutput, discs, sigSent>>

\* The local peer resets connection i (reading stdin fails).
LocalReset(i) ==
  /\ Running
  /\ conn[i] = "open"
  /\ cpPc[i] = "copy"
  /\ conn' = [conn EXCEPT ![i] = "reset"]
  /\ OrchQuiet("localReset")
  /\ UNCHANGED <<waiting, bufVars, kind, mainPc, retErr, result, rdPc, rdVal, nConn, cpPc, how,
                 errCh, sigI, sink, closedOutput, discs, sigSent>>

(* SSHSession and ShellSession *)

\* go func() { io.Copy(c, os.Stdin) }() and on to io.Copy(os.Stdout, c).
StdioSpawn ==
  /\ Running
  /\ kind \in {"ssh", "shell"}
  /\ mainPc = "spawn"
  /\ cpPc' = [cpPc EXCEPT ![1] = "copy"]
  /\ mainPc' = "copyOut"
  /\ OrchQuiet("spawn")
  /\ UNCHANGED <<waiting, bufVars, kind, retErr, result, rdPc, rdVal, nConn, conn, how, errCh,
                 sigI, sink, closedOutput, discs, sigSent>>

\* errCh after io.Copy(os.Stdout, c) returned err: an error other than io.EOF is
\* sent, the channel is closed, and the first error (or nil) is received.
ErrChAfterCopy(err) ==
  LET buf == IF err = "EOF" THEN errCh.buf ELSE Append(errCh.buf, err)
  IN [got |-> IF buf = << >> THEN "nil" ELSE Head(buf),
      ch |-> [buf |-> IF buf = << >> THEN buf ELSE Tail(buf), closed |-> TRUE]]

\* WriteTo's loop: Read, HandleMsg, w.Write(payload); an error of Read or HandleMsg
\* returns at once, without the payload. Then the session function's tail.
StdioCopyOut(msgs) ==
  /\ Running
  /\ mainPc = "copyOut"
  /\ \E in \in Reads(msgs) :
       LET r == ReadHandle(in)
       IN /\ ReaderTurn(in)
          /\ sink' = IF r.err = "nil" /\ r.payload # << >> THEN r.payload ELSE sink
          /\ mainPc' = IF r.err = "nil" THEN "copyOut"
                       ELSE IF kind = "ssh" THEN "deferTerm" ELSE "deferClose"
          /\ errCh' = IF r.err = "nil" THEN errCh ELSE ErrChAfterCopy(r.err).ch
          /\ retErr' = IF r.err = "nil" THEN retErr ELSE ErrChAfterCopy(r.err).got
  /\ UNCHANGED <<waiting, bufVars, kind, result, rdPc, rdVal, nConn, conn, cpPc, how, sigI, discs,
                 sigSent>>

\* The statements of installSignalHandler's goroutine after the signal.
SigSteps == <<"terminate", "close", "exit">>

\* SIGINT, SIGQUIT or SIGTERM arrives (port and ssh sessions install the handler).
SignalReceived ==
  /\ Running
  /\ kind \in {"port", "ssh"}
  /\ sigI = 0
  /\ sigI' = 1
  /\ OrchQuiet("signal")
  /\ UNCHANGED <<waiting, bufVars, kind, mainPc, retErr, result, rdPc, rdVal, nConn, conn, cpPc,
                 how, errCh, sink, closedOutput, discs, sigSent>>

SigTerminate ==
  /\ Running
  /\ sigI \in 1..Len(SigSteps)
  /\ SigSteps[sigI] = "terminate"
  /\ OrchCall("sigTerminateSession", Fin, Flag, PutUint32(TerminateSessionFlag))
  /\ sigSent' = IF wsOut' # << >> THEN "written" ELSE "unwritten"
  /\ sigI' = sigI + 1
  /\ UNCHANGED <<waiting, panicked, bufVars, kind, mainPc, retErr, result, rdPc, rdVal, nConn, conn,
                 cpPc, how, errCh, sink, closedOutput, discs>>

SigClose ==
  /\ Running
  /\ sigI \in 1..Len(SigSteps)
  /\ SigSteps[sigI] = "close"
  /\ wsOpen' = FALSE
  /\ sigI' = sigI + 1
  /\ op' = [name |-> "sigClose", msg |-> NilMsg]
  /\ ret' = NoRet
  /\ wsOut' = << >>
  /\ UNCHANGED <<seqNum, inSeqNum, synSent, pausePub, handshakeCh, outMsgBuf, inMsgBuf,
                 waiting, panicked, delivered, histVars, swVars, sndVars>>
  /\ UNCHANGED <<bufVars, kind, mainPc, retErr, result, rdPc, rdVal, nConn, conn, cpPc, how, errCh,
                 sink, closedOutput, discs, sigSent>>

\* os.Exit(0)
SigExit ==
  /\ Running
  /\ sigI \in 1..Len(SigSteps)
  /\ SigSteps[sigI] = "exit"
  /\ result' = "exit0"
  /\ sigI' = sigI + 1
  /\ OrchQuiet("sigExit")
  /\ UNCHANGED <<waiting, bufVars, kind, mainPc, retErr, rdPc, rdVal, nConn, conn, cpPc, how,
                 errCh, sink, closedOutput, discs, sigSent>>

\* The three session functions after Open: the port and ssh sessions wait for
\* the handshake, the shell session does not.
SessKinds == {"port", "ssh", "shell"}

SessInit ==
  \E k \in SessKinds : ChanInit /\ waiting = (k # "shell") /\ OrchInit(k)

SessNext ==
  \/ OrchHandshakeRead(OrchMsgs)
  \/ OrchHandshakeDone
  \/ PfListen
  \/ PfAccept
  \/ PfReader(OrchMsgs)
  \/ \E i \in Conns : PfSelectDone(i)
  \/ PfSelectData
  \/ PfSelectClosed
  \/ PfSelectReaderErr
  \/ \E i \in Conns : PfSelectCopierErr(i)
  \/ \E i \in Conns : CopyData(i)
  \/ \E i \in Conns : CopyEnd(i)
  \/ \E i \in Conns : CopyFail(i)
  \/ \E i \in Conns : LocalClose(i)
  \/ \E i \in Conns : LocalReset(i)
  \/ StdioSpawn
  \/ StdioCopyOut(OrchMsgs)
  \/ DeferTerminate
  \/ DeferClose
  \/ SignalReceived
  \/ SigTerminate
  \/ SigClose
  \/ SigExit

SpecSess == SessInit /\ [][SessNext]_vars

\* PortForwardingSession alone; the steps of its main loop and its deferred
\* calls are taken when they can be (the goroutine is scheduled), while the
\* agent, the local clients and signals are free.
PfInit == ChanInit /\ waiting /\ OrchInit("port")

PfNext ==
  \/ OrchHandshakeRead(OrchMsgs)
  \/ OrchHandshakeDone
  \/ PfListen
  \/ PfAccept
  \/ PfReader(OrchMsgs)
  \/ \E i \in Conns : PfSelectDone(i)
  \/ PfSelectData
  \/ PfSelectClosed
  \/ PfSelectReaderErr
  \/ \E i \in Conns : PfSelectCopierErr(i)
  \/ \E i \in Conns : CopyData(i)
  \/ \E i \in Conns : CopyEnd(i)
  \/ \E i \in Conns : CopyFail(i)
  \/ \E i \in Conns : LocalClose(i)
  \/ \E i \in Conns : LocalReset(i)
  \/ DeferTerminate
  \/ DeferClose
  \/ SignalReceived
  \/ SigTerminate
  \/ SigClose
  \/ SigExit

SpecPf ==
  /\ PfInit
  /\ [][PfNext]_vars
  /\ WF_vars(PfSelectData)
  /\ WF_vars(PfSelectClosed)
  /\ WF_vars(PfSelectReaderErr)
  /\ WF_vars(\E i \in Conns : PfSelectDone(i))
  /\ WF_vars(\E i \in Conns : PfSelectCopierErr(i))
  /\ WF_vars(PfListen)
  /\ WF_vars(DeferTerminate)
  /\ WF_vars(DeferClose)
  /\ WF_vars(SigTerminate)
  /\ WF_vars(SigClose)
  /\ WF_vars(SigExit)

\* SSHSession and ShellSession alone; the goroutines' own steps are taken when
\* they can be, while the agent (what Read yields and when), stdin and signals
\* are free.
StdioInit ==
  \E k \in {"ssh", "shell"} : ChanInit /\ waiting = (k = "ssh") /\ OrchInit(k)

StdioNext ==
  \/ OrchHandshakeRead(OrchMsgs)
  \/ OrchHandshakeDone
  \/ StdioSpawn
  \/ StdioCopyOut(OrchMsgs)
  \/ \E i \in Conns : CopyData(i)
  \/ \E i \in Conns : CopyEnd(i)
  \/ \E i \in Conns : CopyFail(i)
  \/ \E i \in Conns : LocalClose(i)
  \/ \E i \in Conns : LocalReset(i)
  \/ DeferTerminate
  \/ DeferClose
  \/ SignalReceived
  \/ SigTerminate
  \/ SigClose
  \/ SigExit

SpecStdio ==
  /\ StdioInit
  /\ [][StdioNext]_vars
  /\ WF_vars(StdioSpawn)
  /\ WF_vars(\E i \in Conns : CopyEnd(i))
  /\ WF_vars(\E i \in Conns : CopyFail(i))
  /\ WF_vars(DeferTerminate)
  /\ WF_vars(DeferClose)
  /\ WF_vars(SigTerminate)
  /\ WF_vars(SigClose)
  /\ WF_vars(SigExit)

\* The handler of signals in sessions where no local client connects and stdin is
\* silent; the agent may pause publication.
SigInit ==
  \E k \in {"port", "ssh"} : ChanInit /\ waiting /\ OrchInit(k)

SigNext ==
  \/ OrchHandshakeRead(PauseMsgs)
  \/ OrchHandshakeDone
  \/ PfListen
  \/ PfReader(PauseMsgs)
  \/ StdioSpawn
  \/ StdioCopyOut(PauseMsgs)
  \/ DeferTerminate
  \/ DeferClose
  \/ SignalReceived
  \/ SigTerminate
  \/ SigClose
  \/ SigExit

SpecSig == SigInit /\ [][SigNext]_vars

(* ------------------------- claims: receiving side ---------------------- *)

\* The payloads of sequence numbers from..to-1, concatenated in order.
RECURSIVE PayloadsFromTo(_, _)
PayloadsFromTo(from, to) ==
  IF to <= from THEN << >> ELSE PayloadsFromTo(from, to - 1) \o PayloadOf(to - 1)

AckFrames(frames) == SelectSeq(frames, LAMBDA f : f.MessageType = Acknowledge)

C2_Acknowledged(m) ==
  \/ m.MessageType \in {PausePublication, StartPublication}
  \/ m.MessageType = ChannelClosed /\ JsonOk(m.Payload)
  \/ IsOutput(m)
  \/ /\ m.MessageType = OutputStreamData
     /\ \/ m.PayloadType = HandshakeComplete
        \/ m.PayloadType = HandshakeRequest /\ JsonOk(m.Payload)

C2_OneAckPerInbound ==
  (op.name = "HandleMsg" /\ C2_Acknowledged(op.msg) /\ wsOpen /\ ~panicked)
    => /\ Len(AckFrames(wsOut)) = 1
       /\ AckFrames(wsOut)[1].Payload[2] = op.msg.SequenceNumber

\* C9: in buffered mode an Output message above the expected sequence returns no
\* payload; when the buffer holds exactly e+1..e+n once each (n below capacity) and
\* e arrives, that call returns the payloads of e..e+n in order, leaves the expected
\* sequence at e+n+1 and the reorder buffer empty (the WebSocket being open).
C9_Handles(m) == op'.name = "HandleMsg" /\ op'.msg = m

C10_DuplicateAcked ==
  [][\A m \in {x \in InMsgs : IsOutput(x)} :
       (/\ inMsgBuf # NilBuf
        /\ wsOpen
        /\ ~pausePub
        /\ m.SequenceNumber < inSeqNum
        /\ op'.name = "HandleMsg"
        /\ op'.msg = m)
       => /\ Len(AckFrames(wsOut')) = 1
          /\ AckFrames(wsOut')[1].Payload[2] = m.SequenceNumber
          /\ ret'.payload = << >>
          /\ ret'.err = "nil"
          /\ inSeqNum' = inSeqNum
          /\ inMsgBuf' = inMsgBuf]_vars

(* -------------------------- claims: sending side ----------------------- *)

\* The send operations that number their message from the counter.
CounterOps == {"Write", "SetTerminalSize", "TerminateSession", "DisconnectPort"}
SendOps == CounterOps \cup {"WriteMsg"}

\* C3: over any sequence of calls to the send operations the first frame written
\* carries Flags = Syn and SequenceNumber = 0, the outbound counter never decreases
\* once the Syn is out, and each frame of a counter-numbered send carries a sequence
\* number above that of every earlier counter-numbered frame.
C3_CounterIncreases ==
  [][/\ (~sentAny /\ wsOut' # << >>)
         => (wsOut'[1].Flags = Syn /\ wsOut'[1].SequenceNumber = 0)
     /\ synSent => seqNum' >= seqNum
     /\ (op'.name \in CounterOps /\ wsOut' # << >>)
         => wsOut'[1].SequenceNumber > maxCtr]_vars

\* C4: with concurrent senders, every frame of a counter-numbered send leaves the
\* WebSocket with a sequence number above that of all such frames written before
\* it (strictly increasing, hence no number used twice).
C4_OrderedUnderMutex ==
  [][(op'.name \in CounterOps /\ wsOut' # << >>)
       => wsOut'[1].SequenceNumber > maxCtr]_vars

\* C5: under every interleaving of concurrent first senders the first frame
\* written is Syn with sequence number 0, and no frame written after it carries
\* the Syn flag.
C5_OneSyn ==
  [][\A i \in 1..Len(wsOut') :
       IF ~sentAny /\ i = 1
         THEN wsOut'[i].Flags = Syn /\ wsOut'[i].SequenceNumber = 0
         ELSE wsOut'[i].Flags # Syn]_vars

\* HandleMsg has just processed the acknowledge of sequence number s.
AckHandled(s) ==
  op.name = "HandleMsg" /\ op.msg.MessageType = Acknowledge /\ op.msg.SequenceNumber = s

\* C6: with publication not paused and the sweeper running, if every message held
\* in the retransmit buffer keeps being acknowledged by the peer (each sequence
\* number is again and again either not held or just acknowledged), then the buffer
\* is eventually empty for good and the sweeper holds nothing more to transmit.
C6_Quiesces ==
  (\A s \in 0..MaxSeq : []<>(s \notin BufSeqs(outMsgBuf)) \/ []<>AckHandled(s))
    => <>[](BufLen(outMsgBuf) = 0 /\ swPc # "write")

\* C7: once HandleMsg has processed the acknowledge of a buffered sequence number,
\* no later sweep visits a message with that sequence number.
C7_AckFreesSlot ==
  [][(op'.name = "sweepNext" /\ swMsg' # NilMsg)
       => swMsg'.SequenceNumber \notin acked]_vars

\* C8: while publication is paused a send operation writes no frame, and its
\* message, unless an Acknowledge or a HandshakeResponse, is held in the outbound
\* buffer afterwards, before and after the end of the handshake.
C8_PausedIsBuffered ==
  [][(pausePub /\ op'.name \in SendOps)
       => /\ wsOut' = << >>
          /\ (op'.msg.MessageType # Acknowledge /\ op'.msg.PayloadType # HandshakeResponse)
               => /\ outMsgBuf' # NilBuf
                  /\ \E i \in 1..BufLen(outMsgBuf') : outMsgBuf'.buf[i] = op'.msg]_vars

(* ------------------- claims: acknowledges, latch, end of stream -------- *)

\* C11: whenever HandleMsg returns a non-empty payload for an Output message, the
\* acknowledge of that message has been written to the WebSocket by the same call
\* (the WebSocket being open), buffered or not, paused or not.
C11_AckBeforeDelivery ==
  (op.name = "HandleMsg" /\ IsOutput(op.msg) /\ ret.payload # << >> /\ wsOpen)
    => \E i \in 1..Len(wsOut) :
         /\ wsOut[i].MessageType = Acknowledge
         /\ wsOut[i].Payload[2] = op.msg.SequenceNumber

\* C12: for any number of HandshakeComplete messages, in a session that waits for
\* the handshake or in one that never does, HandleMsg returns without error and
\* the process does not panic on a second close of the latch.
C12_LatchIdempotent ==
  (/\ op.name = "HandleMsg"
   /\ op.msg.MessageType = OutputStreamData
   /\ op.msg.PayloadType = HandshakeComplete
   /\ wsOpen)
    => (ret.err = "nil" /\ ~panicked)

\* C18: HandleMsg on a channel_closed message whose payload parses returns the
\* payload's Output bytes (none when Output is empty) together with io.EOF, and
\* leaves the channel as it was, in every state of the channel.
C18_ChannelClosedReturnsOutput ==
  [][\A m \in {x \in InMsgs : x.MessageType = ChannelClosed /\ JsonOk(x.Payload)} :
       (op'.name = "HandleMsg" /\ op'.msg = m)
         => /\ ret'.payload = m.Payload[1].Output
            /\ ret'.err = "EOF"
            /\ Chan' = Chan]_vars

\* channel_closed with Output bytes handled while paused and unbuffered.
C18_Witness ==
  /\ op.name = "HandleMsg"
  /\ op.msg.MessageType = ChannelClosed
  /\ ret.payload = <<98, 121, 101>>
  /\ ret.err = "EOF"
  /\ pausePub
  /\ inMsgBuf = NilBuf

\* C14: once WaitForHandshakeComplete has returned, both buffers are gone and stay
\* gone (no outbound message is retained), and every Output message has its payload
\* returned, without error, by the HandleMsg call that receives it, whatever its
\* sequence number.
C14_Unbuffered ==
  [][handshakeCh = "nil"
       => /\ inMsgBuf = NilBuf /\ outMsgBuf = NilBuf
          /\ inMsgBuf' = NilBuf /\ outMsgBuf' = NilBuf
          /\ \A m \in {x \in InMsgs : IsOutput(x)} :
               (op'.name = "HandleMsg" /\ op'.msg = m)
                 => (ret'.payload = m.Payload /\ ret'.err = "nil")]_vars

\* After the handshake and a Write, an Output message below the expected inbound
\* sequence (a repeat) is returned at once.
C14_Witness ==
  /\ handshakeCh = "nil"
  /\ seqNum > 0
  /\ op.name = "HandleMsg"
  /\ IsOutput(op.msg)
  /\ op.msg.SequenceNumber < inSeqNum
  /\ ret.payload = op.msg.Payload


(* ------------------- claims: the session functions --------------------- *)

\* C13: in the port and ssh sessions the listener, the accepted connections, the
\* copy of stdin and every Write of local bytes come only after the handshake
\* wait has returned successfully (a HandshakeComplete was handled and the
\* latch is consumed); when the wait fails the function is on its way out with
\* the error, no connection accepted and no copier started.
C13_HandshakePrecedesData ==
  kind \in {"port", "ssh"} =>
    /\ mainPc \in {"listen", "accept", "select", "spawn", "copyOut"} => handshakeCh = "nil"
    /\ ((kind = "port" /\ nConn > 0) \/ \E i \in Conns : cpPc[i] # "none")
         => handshakeCh = "nil"
    /\ op.name = "Write" => handshakeCh = "nil"
    /\ (mainPc # "wait" /\ handshakeCh # "nil")
         => /\ retErr # "nil"
            /\ mainPc \in {"deferTerm", "deferClose", "done"}
            /\ kind = "port" => nConn = 0
            /\ \A i \in Conns : cpPc[i] = "none"

\* C13: local bytes of the first accepted connection are on the wire.
C13_Witness ==
  /\ kind = "port"
  /\ nConn = 1
  /\ op.name = "Write"
  /\ wsOut # << >>
  /\ wsOut[1].Payload = OutPayload
  /\ handshakeCh = "nil"

C17_ClosedOutputDelivered ==
  (/\ closedOutput # << >>
   /\ kind = "shell" \/ handshakeCh = "nil"
   /\ mainPc \in {"deferTerm", "deferClose", "done"})
    => sink = closedOutput

\* C15: when the port session leaves its inner loop for a connection whose
\* copier saw the local peer's close (the channel reader has not failed and no
\* signal arrived), it does so by exactly one DisconnectPort call that writes
\* the DisconnectToPort flag message, the connection is closed, the WebSocket
\* stays open and the function is back at Accept.
C15_LocalCloseTeardown ==
  [][(/\ kind = "port"
      /\ mainPc = "select"
      /\ mainPc' # "select"
      /\ how[nConn] = "eof"
      /\ rdPc \in {"read", "sendData"}
      /\ sigI = 0)
       => /\ op'.name = "DisconnectPort"
          /\ discs' = 1
          /\ Len(wsOut') = 1
          /\ wsOut'[1].PayloadType = Flag
          /\ wsOut'[1].Payload = PutUint32(DisconnectToPort)
          /\ conn'[nConn] = "closed"
          /\ wsOpen'
          /\ mainPc' = "accept"]_vars

\* C16: once the main loop of the port session has received the error of the
\* channel reader (a read error, a close, an error of HandleMsg), the session
\* function eventually returns (or the process exits).
C16_ReturnsOnChannelFailure ==
  (kind = "port" /\ rdPc = "closed") ~> (result # "running")

\* C20: once the copy of stdin into the channel has finished in an ssh or shell
\* session, the session function eventually returns (or the process ends).
C20_ReturnsWhenStdinEnds ==
  (kind \in {"ssh", "shell"} /\ cpPc[1] = "end") ~> (result # "running" \/ panicked)

(* ------------- claims: sweeper, buffer, codec, handshake --------------- *)

\* C21: if publication does not stay paused for ever, then once the buffers have
\* been cleared by the end of the handshake, or the channel has been closed,
\* the sweeper goroutine eventually stops for good (it has returned, or the
\* process has died).
C21_SweeperStops ==
  (<>[]~pausePub)
    => ((handshakeCh = "nil" \/ ~wsOpen) ~> [](swPc = "done" \/ panicked))

\* C22: a send of a bufferable message on an open WebSocket while the outbound
\* buffer is at capacity writes exactly one frame, the message itself, does
\* not return the buffer-full error, and leaves the buffer as it was.
C22_BufferFullIsSoft ==
  [][(/\ op'.name \in SendOps
      /\ outMsgBuf # NilBuf
      /\ BufLen(outMsgBuf) = outMsgBuf.size
      /\ wsOpen)
       => /\ wsOut' = <<op'.msg>>
          /\ ret'.err # "buffer full"
          /\ outMsgBuf' = outMsgBuf]_vars

\* C23: when HandleMsg takes an Output message it has to acknowledge (unbuffered,
\* or buffered and not a duplicate) while the acknowledge cannot be transmitted
\* (the WebSocket is closed, publication not paused), it returns an error and no
\* payload.
C23_AckFailureReported ==
  [][(/\ op'.name = "HandleMsg"
      /\ IsOutput(op'.msg)
      /\ ~wsOpen
      /\ ~pausePub
      /\ inMsgBuf = NilBuf \/ op'.msg.SequenceNumber >= inSeqNum)
       => /\ ret'.err # "nil"
          /\ ret'.payload = << >>]_vars

\* The messages of a list carry pairwise distinct sequence numbers.
DistinctSeqs(buf) ==
  \A i, j \in 1..Len(buf) : buf[i].SequenceNumber = buf[j].SequenceNumber => i = j

C25_Traversal ==
  [][/\ Len(trav') <= BufLen(mb')
     /\ \A i \in 1..Len(trav') : trav'[i] = mb'.buf[i]
     /\ (op'.name = "Next" /\ ret'.msg = NilMsg) => trav = mb.buf]_vars

\* C25: Next has just returned nil at the end of a walk over a full buffer.
C25_Witness ==
  /\ op.name = "Next"
  /\ ret.msg = NilMsg
  /\ BufLen(mb) = BufSize
  /\ mb.cursor = 0
  /\ trav = << >>

\* C26: decoding the frame that MarshalBinary produced for a message succeeds and
\* gives back the message's MessageType, SequenceNumber, Flags, PayloadType and
\* Payload, whatever the type's length and whether headerLength is 116 or 112.
C26_RoundTrip ==
  [][(op'.name = "UnmarshalBinary" /\ op'.input = "encoded")
       => /\ ret'.err = "nil"
          /\ ret'.msg.MessageType = op'.msg.MessageType
          /\ ret'.msg.SequenceNumber = op'.msg.SequenceNumber
          /\ ret'.msg.Flags = op'.msg.Flags
          /\ ret'.msg.PayloadType = op'.msg.PayloadType
          /\ ret'.msg.Payload = op'.msg.Payload]_vars

\* C27: a frame of a 116-byte-header message with one payload byte changed after
\* encoding does not decode: UnmarshalBinary reports a digest mismatch.
C27_DigestChecked ==
  [][(op'.name = "UnmarshalBinary" /\ op'.input = "altered"
        /\ op'.msg.headerLength = agentMsgHeaderLen)
       => ret'.err = "payload digest mismatch"]_vars

\* C28: a frame whose schemaVersion is 0, whose MessageType is shorter than 10
\* after trimming, or whose createdDate is 0 ms is refused with a validation error.
C28_StructureChecked ==
  [][(op'.name = "UnmarshalBinary" /\ op'.input = "peer"
        /\ (\/ op'.data.schemaVersion = 0
            \/ Len(parseMessageType(op'.data.messageType)) < 10
            \/ op'.data.createdDate = 0))
       => ret'.err \notin {"nil", "panic"}]_vars

\* C29: the HandshakeResponse written for a request has ClientVersion 0.0.1 and
\* one processed action per requested action, in the same order: SessionType with
\* Success for a SessionType action, the zero value for any other.
C29_ResponseShape ==
  [][(/\ op'.name = "HandleMsg"
      /\ op'.msg.PayloadType = HandshakeRequest
      /\ wsOut' # << >>
      /\ wsOut'[1].PayloadType = HandshakeResponse)
       => LET req == op'.msg.Payload[1].RequestedClientActions
              res == wsOut'[1].Payload[1]
          IN /\ res.ClientVersion = "0.0.1"
             /\ Len(res.ProcessedClientActions) = Len(req)
             /\ \A i \in 1..Len(req) :
                  res.ProcessedClientActions[i] =
                    IF req[i] = SessionType
                      THEN [ActionType |-> SessionType, ActionStatus |-> Success]
                      ELSE [ActionType |-> "", ActionStatus |-> 0]]_vars

\* C29 witness: a request for two actions, one of them not SessionType, has been
\* answered.
C29_Witness ==
  /\ op.name = "HandleMsg"
  /\ op.msg.PayloadType = HandshakeRequest
  /\ op.msg.Payload[1].RequestedClientActions = <<KMSEncryption, SessionType>>
  /\ wsOut # << >>
  /\ wsOut[1].PayloadType = HandshakeResponse
  /\ Len(wsOut[1].Payload[1].ProcessedClientActions) = 2

\* C30: a handshake request with sequence number s, handled while the WebSocket is
\* open and publication is not paused, writes the response as input_stream_data
\* with sequence number s, then the acknowledge of the request, and leaves the
\* outbound counter as it was.
C30_ResponseReusesSeq ==
  [][(/\ op'.name = "HandleMsg"
      /\ op'.msg.PayloadType = HandshakeRequest
      /\ wsOpen /\ ~pausePub)
       => /\ Len(wsOut') = 2
          /\ wsOut'[1].MessageType = InputStreamData
          /\ wsOut'[1].PayloadType = HandshakeResponse
          /\ wsOut'[1].SequenceNumber = op'.msg.SequenceNumber
          /\ wsOut'[2].MessageType = Acknowledge
          /\ wsOut'[2].Payload = AckPayload(op'.msg)
          /\ seqNum' = seqNum]_vars

(* ------ claims: numbering, buffer index, channels, pause, reorder ------- *)

\* C31: once the Syn is out, a message handed to WriteMsg with a negative
\* SequenceNumber leaves on the WebSocket carrying the next value of the outbound
\* counter, and the counter has advanced to that value.  (After the Syn WriteMsg
\* leaves the message's fields alone, so op.msg is the message as it was handed in.)
C31_NegativeSeqNumbered ==
  [][(/\ op'.name = "WriteMsg"
      /\ synSent
      /\ op'.msg.SequenceNumber < 0
      /\ wsOpen /\ ~pausePub)
       => /\ Len(wsOut') = 1
          /\ wsOut'[1].SequenceNumber = seqNum + 1
          /\ seqNum' = seqNum + 1]_vars

\* C32: a Next call made while a walk is in progress (the cursor is not nil)
\* returns the first surviving message lying after the cursor's place, and
\* returns nil only when none is left there, also after a Remove of the message
\* the cursor rests on.
C32_RemoveKeepsTraversal ==
  [][(op'.name = "Next" /\ mb.cursor # 0)
       => ret'.msg = IF place < BufLen(mb) THEN mb.buf[place + 1] ELSE NilMsg]_vars

\* C40: the list and the index of the buffer correspond one to one: as many
\* index entries as list elements, and every message in the list is the one the
\* index holds for its sequence number.
C40_IndexConsistent ==
  /\ BufLen(mb) = Cardinality(DOMAIN mb.seqMap)
  /\ \A i \in 1..BufLen(mb) : Get(mb, mb.buf[i].SequenceNumber) = mb.buf[i]

\* Neither an acknowledge nor a handshake response.
Retransmittable(m) == m.MessageType # Acknowledge /\ m.PayloadType # HandshakeResponse

\* C33: the outbound buffer holds no acknowledge and no handshake response, and
\* the sweeper neither picks one up nor writes one.
C33_NoAckOrResponseBuffered ==
  /\ outMsgBuf # NilBuf => \A i \in 1..BufLen(outMsgBuf) : Retransmittable(outMsgBuf.buf[i])
  /\ swMsg # NilMsg => Retransmittable(swMsg)
  /\ op.name = "retransmit" => \A i \in 1..Len(wsOut) : Retransmittable(wsOut[i])

\* C33 witness: a handshake response and the acknowledge of the request have just
\* been written while the outbound buffer holds messages.
C33_Witness ==
  /\ op.name = "HandleMsg"
  /\ op.msg.PayloadType = HandshakeRequest
  /\ Len(wsOut) = 2
  /\ wsOut[1].PayloadType = HandshakeResponse
  /\ wsOut[2].MessageType = Acknowledge
  /\ outMsgBuf # NilBuf
  /\ BufLen(outMsgBuf) > 0

\* C34: HandleMsg on an acknowledge writes no frame and leaves the inbound
\* counter, the pause flag and the reorder buffer as they were.
C34_AckNotAcknowledged ==
  [][(op'.name = "HandleMsg" /\ op'.msg.MessageType = Acknowledge)
       => /\ wsOut' = << >>
          /\ inSeqNum' = inSeqNum
          /\ pausePub' = pausePub
          /\ inMsgBuf' = inMsgBuf]_vars

\* C35: when the main loop of the port session leaves its select for the next
\* Accept on a signal of a copier (doneCh or errCh), the copier is the one of the
\* connection being served.  (A signal of the channel reader is let pass here
\* whenever it was produced.)
C35_OwnSignalOnly ==
  [][(mainPc = "select" /\ mainPc' = "accept")
       => \A i \in Conns : cpPc'[i] # cpPc[i] => i = nConn]_vars

\* C36: in the ssh and shell sessions the stdin copier never reports an error
\* (errCh <- err) after the foreground copy has closed errCh.
C36_NoSendOnClosedErrCh ==
  [][(/\ kind \in {"ssh", "shell"}
      /\ \E i \in Conns : cpPc[i] = "copy" /\ cpPc'[i] = "end" /\ how'[i] = "err")
       => ~errCh.closed]_vars

\* C37: the sweeper's c.outMsgBuf.Next() is never reached with the buffer
\* reference cleared by WaitForHandshakeComplete, and nothing panics on it.
C37_NoNilBufferUse ==
  [][op'.name = "sweepNext" => (outMsgBuf # NilBuf /\ ~panicked')]_vars

\* Write has just returned success for the message numbered s while publication
\* was paused, and wrote nothing.
PausedWriteOk(s) ==
  /\ op.name = "Write"
  /\ op.msg.SequenceNumber = s
  /\ ret.err = "nil"
  /\ pausePub
  /\ wsOut = << >>

\* The input_stream_data message numbered s is on the WebSocket.
OnTheWire(s) ==
  \E i \in 1..Len(wsOut) :
    wsOut[i].MessageType = InputStreamData /\ wsOut[i].SequenceNumber = s

\* C38: if publication is in the end resumed for good, the WebSocket stays open
\* and nothing panics, every message for which Write returned success while publication was
\* paused is eventually written to the WebSocket, before and after the end of the
\* handshake.
C38_NoLossAcrossPause ==
  ((<>[]~pausePub) /\ []wsOpen /\ []~panicked)
    => \A s \in 0..MaxSeq : (PausedWriteOk(s) ~> OnTheWire(s))

\* C39: in buffered mode, with the WebSocket open, the HandleMsg call that
\* receives the Output message carrying the expected inbound sequence number
\* returns its payload (first in what it delivers) without error and advances
\* the inbound counter, whatever the reorder buffer holds.
C39_ExpectedAlwaysDelivered ==
  [][(/\ op'.name = "HandleMsg"
      /\ IsOutput(op'.msg)
      /\ inMsgBuf # NilBuf
      /\ op'.msg.SequenceNumber = inSeqNum
      /\ wsOpen)
       => /\ ret'.err = "nil"
          /\ Len(ret'.payload) >= Len(op'.msg.Payload)
          /\ SubSeq(ret'.payload, 1, Len(op'.msg.Payload)) = op'.msg.Payload
          /\ inSeqNum' > inSeqNum]_vars

====
